---- MODULE Spec2Model ----
(***************************************************************************)
(* MarshalArgs of package lvm2 (args.go): a struct is turned into a slice  *)
(* of command line tokens.  The struct is walked field by field; embedded  *)
(* structs are marshalled by a recursive call whose result is appended to  *)
(* the caller's args; positional arguments are collected in a map and      *)
(* flattened at the end of each call.                                      *)
(*                                                                         *)
(* Text is modelled as a sequence of one-character strings, so that        *)
(* strconv.Atoi, strconv.Itoa and fmt.Sprintf are computed and not assumed.*)
(* The recursion of MarshalArgs is a stack of frames, one per call.        *)
(***************************************************************************)
EXTENDS Integers, Sequences, FiniteSets, TLC

(***************************************************************************)
(* Bounds of the model.                                                    *)
(***************************************************************************)
MaxFields == 3      \* fields of the struct handed to MarshalArgs
MaxSub    == 2      \* fields of an embedded struct
MaxDepth  == 2      \* nesting depth of embedded structs

(***************************************************************************)
(* Text helpers.                                                           *)
(***************************************************************************)
Digits == <<"0", "1", "2", "3", "4", "5", "6", "7", "8", "9">>

IsDigit(c) == \E d \in 1..10 : Digits[d] = c

DigitVal(c) == (CHOOSE d \in 1..10 : Digits[d] = c) - 1

RECURSIVE DecVal(_)
DecVal(s) ==
    IF s = <<>> THEN 0
    ELSE 10 * DecVal(SubSeq(s, 1, Len(s) - 1)) + DigitVal(s[Len(s)])

\* strconv.Atoi: an optional sign followed by at least one decimal digit.
AtoiDigits(s) ==
    IF s # <<>> /\ s[1] \in {"+", "-"} THEN Tail(s) ELSE s

AtoiOk(s) ==
    /\ AtoiDigits(s) # <<>>
    /\ \A k \in 1..Len(AtoiDigits(s)) : IsDigit(AtoiDigits(s)[k])

AtoiVal(s) ==
    IF s[1] = "-" THEN 0 - DecVal(AtoiDigits(s)) ELSE DecVal(AtoiDigits(s))

RECURSIVE ItoaNat(_)
ItoaNat(n) ==
    IF n < 10 THEN <<Digits[n + 1]>>
    ELSE ItoaNat(n \div 10) \o <<Digits[(n % 10) + 1]>>

\* strconv.Itoa and the %d verb of fmt.Sprintf.
Itoa(n) == IF n < 0 THEN <<"-">> \o ItoaNat(0 - n) ELSE ItoaNat(n)

\* fmt.Sprintf("%s=%s", tag, v) and fmt.Sprintf("%s=%d", tag, v).
SprintfEq(tag, text) == tag \o <<"=">> \o text

(***************************************************************************)
(* Values a field can hold.  kind is the dynamic type the type switch of   *)
(* MarshalArgs sees; isnil tells a nil pointer or nil slice; b, n, s, l    *)
(* carry the boolean, integer, text or sequence the value holds or points  *)
(* to.                                                                     *)
(***************************************************************************)
Val(kind, isnil, b, n, s, l) ==
    [kind |-> kind, isnil |-> isnil, b |-> b, n |-> n, s |-> s, l |-> l]

VBool(b)      == Val("bool", FALSE, b, 0, <<>>, <<>>)
VPtrBool(b)   == Val("*bool", FALSE, b, 0, <<>>, <<>>)
VInt(n)       == Val("int", FALSE, FALSE, n, <<>>, <<>>)
VPtrInt(n)    == Val("*int", FALSE, FALSE, n, <<>>, <<>>)
VString(s)    == Val("string", FALSE, FALSE, 0, s, <<>>)
VPtrString(s) == Val("*string", FALSE, FALSE, 0, s, <<>>)
VSlice(l)     == Val("[]string", FALSE, FALSE, 0, <<>>, l)
VYesNo(b)     == Val("*YesNo", FALSE, b, 0, <<>>, <<>>)
VCustom(s)    == Val("*custom", FALSE, FALSE, 0, s, <<>>)
VFloat(n)     == Val("float64", FALSE, FALSE, n, <<>>, <<>>)
VNil(kind)    == Val(kind, TRUE, FALSE, 0, <<>>, <<>>)

\* Yes and No, the ready-made pointers.
Yes == VYesNo(TRUE)
No  == VYesNo(FALSE)

\* MarshalText rendering as a plain boolean would.
YesNoAsTrueFalse(b) ==
    IF b THEN <<"t", "r", "u", "e">> ELSE <<"f", "a", "l", "s", "e">>

\* (*YesNo).MarshalText
YesNoMarshalText(b) == IF b THEN <<"y">> ELSE <<"n">>

\* The kinds that satisfy the TextMarshaler interface.
TextMarshalerKinds == {"*YesNo", "*custom"}

MarshalText(v) == IF v.kind = "*YesNo" THEN YesNoMarshalText(v.b) ELSE v.s

PointerKinds == {"*bool", "*int", "*string", "*YesNo", "*custom"}

\* field.IsZero(): the value is deeply equal to the zero value of its type.
\* A nil pointer and a nil slice are zero, a non-nil empty slice is not.
IsZero(v) ==
    CASE v.kind = "bool"       -> ~v.b
      [] v.kind = "int"        -> v.n = 0
      [] v.kind = "float64"    -> v.n = 0
      [] v.kind = "string"     -> v.s = <<>>
      [] OTHER                 -> v.isnil

(***************************************************************************)
(* Fields and structs.  A struct is the sequence of its fields in          *)
(* declaration order; an embedded field carries the struct it embeds.      *)
(***************************************************************************)
Leaf(tag, exported, val) ==
    [embedded |-> FALSE, exported |-> exported, tag |-> tag, val |-> val,
     sub |-> <<>>]

Embedded(sub) ==
    [embedded |-> TRUE, exported |-> TRUE, tag |-> <<>>, val |-> VNil("struct"),
     sub |-> sub]

NoTag == <<>>
Minus1 == <<"-", "1">>
TagA  == <<"-", "-", "a">>
TagB  == <<"-", "-", "b">>
Pos0  == <<"0">>
Pos1  == <<"1">>
Pos2  == <<"2">>

TX == <<"x">>
TY == <<"y">>
TP == <<"p">>
TQ == <<"q">>
TR == <<"r">>

\* Every value shape, with its zero and non-zero values.
RichValues ==
    {VBool(FALSE), VBool(TRUE),
     VNil("*bool"), VPtrBool(FALSE), VPtrBool(TRUE),
     VInt(0), VInt(12),
     VNil("*int"), VPtrInt(0), VPtrInt(12),
     VString(<<>>), VString(TX),
     VNil("*string"), VPtrString(<<>>), VPtrString(TX),
     VNil("[]string"), VSlice(<<>>), VSlice(<<TX>>), VSlice(<<TX, TY>>),
     VSlice(<<<<>>, TX>>),
     VNil("*YesNo"), Yes, No,
     VCustom(<<>>),
     VFloat(0), VFloat(1)}

RichFields ==
    {Leaf(t, TRUE, v) : t \in {TagA, Pos0}, v \in RichValues}
    \cup {Leaf(Pos1, TRUE, v) :
             v \in {VBool(FALSE), VBool(TRUE), VPtrString(<<>>), VSlice(<<>>),
                    VSlice(<<TX>>), VSlice(<<TX, TY>>), VSlice(<<<<>>, TX>>)}}
    \cup {Leaf(Minus1, TRUE, VString(TX)),
          Leaf(NoTag, TRUE, VString(TX)), Leaf(NoTag, TRUE, VFloat(1)),
          Leaf(TagA, FALSE, VString(TX)), Leaf(Pos0, FALSE, VString(TX)),
          Leaf(TagA, FALSE, VFloat(1))}

\* Plain text fields, named and positional.
PlainFields ==
    {Leaf(TagA, TRUE, VString(TX)), Leaf(TagB, TRUE, VString(TY)),
     Leaf(Pos0, TRUE, VString(TP)), Leaf(Pos1, TRUE, VString(TQ)),
     Leaf(Pos2, TRUE, VString(TR))}

SubFields ==
    {Leaf(TagB, TRUE, VString(TY)), Leaf(Pos0, TRUE, VString(TQ))}

SeqsUpTo(A, n) == UNION {[1..k -> A] : k \in 0..n}

\* s with e put in as its p-th element.
InsertAt(s, p, e) == SubSeq(s, 1, p - 1) \o <<e>> \o SubSeq(s, p, Len(s))

\* The sequences of at most n elements: elements of A and one element of B.
WithOne(A, B, n) ==
    {InsertAt(x[1], x[2], x[3]) :
        x \in UNION {[1..k -> A] \X (1..(k + 1)) \X B : k \in 0..(n - 1)}}

\* The structs an embedded field can hold: at most MaxSub text fields, or an
\* embedded struct of the next depth with at most one text field beside it.
RECURSIVE SubStructs(_)
SubStructs(d) ==
    IF d <= 1 THEN SeqsUpTo(SubFields, MaxSub)
    ELSE SeqsUpTo(SubFields, MaxSub)
         \cup WithOne(SubFields, {Embedded(s) : s \in SubStructs(d - 1)}, 2)

EmbeddedFields == {Embedded(s) : s \in SubStructs(MaxDepth)}

\* The text fields declared beside an embedded struct.
OuterFields ==
    {Leaf(TagA, TRUE, VString(TX)), Leaf(Pos0, TRUE, VString(TP))}

\* The structs MarshalArgs is called with, of at most MaxFields fields:
\* plain text fields; plain text fields and one field of any shape; text
\* fields and one embedded struct.
IsObject(o) ==
    \/ \E k \in 0..MaxFields : \E s \in [1..k -> PlainFields] : o = s
    \/ \E k \in 0..(MaxFields - 1) : \E s \in [1..k -> PlainFields] :
          \E p \in 1..(k + 1) : \E e \in RichFields :
             o = InsertAt(s, p, e)
    \/ \E k \in 0..(MaxFields - 1) : \E s \in [1..k -> OuterFields] :
          \E p \in 1..(k + 1) : \E e \in EmbeddedFields :
             o = InsertAt(s, p, e)

(***************************************************************************)
(* State.                                                                  *)
(***************************************************************************)
VARIABLES
    obj,        \* opts, the struct handed to MarshalArgs
    stack,      \* the active calls of MarshalArgs, innermost last
    result,     \* the slice the outermost call returned
    pc,         \* "wait", "run", "done" or "panic"
    panicMsg,   \* what the panic reports
    parked,     \* the other goroutine calling MarshalArgs, while it is not
                \* the one taking steps
    client      \* the Client operation that calls MarshalArgs and run

vars == <<obj, stack, result, pc, panicMsg, parked, client>>

\* A map[int]string is a function from the set of its keys.
EmptyMap == [k \in {} |-> <<>>]

\* MapSet keeping the value a key already has.
MapSetKeepFirst(m, k, v) ==
    [j \in (DOMAIN m) \cup {k} |-> IF j \in DOMAIN m THEN m[j] ELSE v]

MapSet(m, k, v) == [j \in (DOMAIN m) \cup {k} |-> IF j = k THEN v ELSE m[j]]

\* The locals of one call: s.Fields() and the index of the field the loop is
\* at, args, posArgs, and once the loop is over orderedPosArgs and the keys
\* of posArgs the range loop has not visited yet.
NewFrame(fs) ==
    [fs |-> fs, i |-> 1, args |-> <<>>, posArgs |-> EmptyMap, phase |-> "loop",
     ordered |-> <<>>, todo |-> {}]

NoPanic == "none"
Unsupported == "unsupported argument type"
IndexOutOfRange == "index out of range"

\* The registers of a call of MarshalArgs(o) that has taken no step yet.
Invocation(k, o) ==
    [id |-> k, obj |-> o, stack |-> <<NewFrame(o)>>, result |-> <<>>,
     pc |-> "run", panicMsg |-> NoPanic]

\* No second goroutine, and no Client operation around the call.
NoInvocation == [Invocation(0, <<>>) EXCEPT !.pc = "none"]

NoClient == [phase |-> "none"]

Init ==
    /\ IsObject(obj)
    /\ stack = <<NewFrame(obj)>>
    /\ result = <<>>
    /\ pc = "run"
    /\ panicMsg = NoPanic
    /\ parked = NoInvocation
    /\ client = NoClient

Top == stack[Len(stack)]

SetTop(f) == stack' = [stack EXCEPT ![Len(stack)] = f]

InLoop == pc = "run" /\ Top.phase = "loop" /\ Top.i <= Len(Top.fs)

Cur == Top.fs[Top.i]

(***************************************************************************)
(* The body of the loop over s.Fields().                                   *)
(***************************************************************************)
\* pos, err := strconv.Atoi(tag); isPosArg is err == nil.
IsPosArg(tag) == AtoiOk(tag)

PosOf(tag) == AtoiVal(tag)

\* Skipped without the zero check.
SkippedZeroKept(f) == ~f.exported

\* Skipped without the export check.
SkippedUnexportedKept(f) == IsZero(f.val)

\* if !field.IsExported() || field.IsZero() { continue }
Skipped(f) == ~f.exported \/ IsZero(f.val)

\* BoolArg with a named boolean written as tag=true or tag=false.
BoolArgWithValue(isPos, tag, b) ==
    IF isPos THEN (IF b THEN <<"t", "r", "u", "e">>
                   ELSE <<"f", "a", "l", "s", "e">>)
    ELSE SprintfEq(tag, IF b THEN <<"t", "r", "u", "e">>
                        ELSE <<"f", "a", "l", "s", "e">>)

\* case bool, case *bool: the text of the argument, empty for no argument.
BoolArg(isPos, tag, b) ==
    IF isPos THEN (IF b THEN <<"t", "r", "u", "e">>
                   ELSE <<"f", "a", "l", "s", "e">>)
    ELSE (IF b THEN tag ELSE <<>>)

\* case int, case *int
IntArg(isPos, tag, n) ==
    IF isPos THEN Itoa(n) ELSE SprintfEq(tag, Itoa(n))

\* case string, case *string
StringArg(isPos, tag, s) ==
    IF isPos THEN s ELSE SprintfEq(tag, s)

\* PtrStringArg with the named form written without "=".
PtrStringArgNoEquals(isPos, tag, v) ==
    IF isPos THEN v.s ELSE tag \o v.s

\* case *bool, case *int, case *string: the same with *v for v.
PtrBoolArg(isPos, tag, v) ==
    IF isPos THEN (IF v.b THEN <<"t", "r", "u", "e">>
                   ELSE <<"f", "a", "l", "s", "e">>)
    ELSE (IF v.b THEN tag ELSE <<>>)

PtrIntArg(isPos, tag, v) ==
    IF isPos THEN Itoa(v.n) ELSE SprintfEq(tag, Itoa(v.n))

PtrStringArg(isPos, tag, v) ==
    IF isPos THEN v.s ELSE SprintfEq(tag, v.s)

\* default, for a value that is a TextMarshaler
MarshalerArg(isPos, tag, v) ==
    IF isPos THEN MarshalText(v) ELSE SprintfEq(tag, MarshalText(v))

\* if arg != "" { posArgs[pos] = arg, or args = append(args, arg) }
\* PutArg without the test arg != "".
PutArgEvenEmpty(f, isPos, pos, arg) ==
    IF isPos THEN [f EXCEPT !.posArgs = MapSet(f.posArgs, pos, arg)]
    ELSE [f EXCEPT !.args = Append(f.args, arg)]

PutArg(f, isPos, pos, arg) ==
    IF arg = <<>> THEN f
    ELSE IF isPos THEN [f EXCEPT !.posArgs = MapSet(f.posArgs, pos, arg)]
    ELSE [f EXCEPT !.args = Append(f.args, arg)]

\* SlicePos without pos++.
RECURSIVE SlicePosSameSlot(_, _, _)
SlicePosSameSlot(m, pos, l) ==
    IF l = <<>> THEN m
    ELSE SlicePosSameSlot(MapSet(m, pos, Head(l)), pos, Tail(l))

\* case []string, positional: posArgs[pos] = s; pos++ for each element.
RECURSIVE SlicePos(_, _, _)
SlicePos(m, pos, l) ==
    IF l = <<>> THEN m
    ELSE SlicePos(MapSet(m, pos, Head(l)), pos + 1, Tail(l))

\* SliceNamed with the elements taken last to first.
SliceNamedReversed(args, tag, l) ==
    args \o [k \in 1..Len(l) |-> SprintfEq(tag, l[Len(l) + 1 - k])]

\* case []string, named: one tag=element per element.
SliceNamed(args, tag, l) ==
    args \o [k \in 1..Len(l) |-> SprintfEq(tag, l[k])]

PutSlice(f, isPos, pos, tag, l) ==
    IF isPos THEN [f EXCEPT !.posArgs = SlicePos(f.posArgs, pos, l)]
    ELSE [f EXCEPT !.args = SliceNamed(f.args, tag, l)]

Continue(f) == SetTop([f EXCEPT !.i = f.i + 1])

Steady == UNCHANGED <<obj, result, pc, panicMsg, parked, client>>

\* if field.IsEmbedded(): MarshalArgs(field.Value()) is called.
CallEmbedded ==
    /\ InLoop
    /\ Cur.embedded
    /\ stack' = Append(stack, NewFrame(Cur.sub))
    /\ Steady

\* if tag == "" { continue }
SkipUntagged ==
    /\ InLoop
    /\ ~Cur.embedded
    /\ Cur.tag = <<>>
    /\ Continue(Top)
    /\ Steady

SkipZero ==
    /\ InLoop
    /\ ~Cur.embedded
    /\ Cur.tag # <<>>
    /\ Skipped(Cur)
    /\ Continue(Top)
    /\ Steady

\* The field reaches the type switch.
Encoded ==
    /\ InLoop
    /\ ~Cur.embedded
    /\ Cur.tag # <<>>
    /\ ~Skipped(Cur)

Scalar(arg) ==
    /\ Continue(PutArg(Top, IsPosArg(Cur.tag), PosOf(Cur.tag), arg))
    /\ Steady

CaseBool ==
    /\ Encoded
    /\ Cur.val.kind = "bool"
    /\ Scalar(BoolArg(IsPosArg(Cur.tag), Cur.tag, Cur.val.b))

CasePtrBool ==
    /\ Encoded
    /\ Cur.val.kind = "*bool"
    /\ Scalar(PtrBoolArg(IsPosArg(Cur.tag), Cur.tag, Cur.val))

CaseInt ==
    /\ Encoded
    /\ Cur.val.kind = "int"
    /\ Scalar(IntArg(IsPosArg(Cur.tag), Cur.tag, Cur.val.n))

CasePtrInt ==
    /\ Encoded
    /\ Cur.val.kind = "*int"
    /\ Scalar(PtrIntArg(IsPosArg(Cur.tag), Cur.tag, Cur.val))

CaseString ==
    /\ Encoded
    /\ Cur.val.kind = "string"
    /\ Scalar(StringArg(IsPosArg(Cur.tag), Cur.tag, Cur.val.s))

CasePtrString ==
    /\ Encoded
    /\ Cur.val.kind = "*string"
    /\ Scalar(PtrStringArg(IsPosArg(Cur.tag), Cur.tag, Cur.val))

CaseSlice ==
    /\ Encoded
    /\ Cur.val.kind = "[]string"
    /\ Continue(PutSlice(Top, IsPosArg(Cur.tag), PosOf(Cur.tag), Cur.tag,
                         Cur.val.l))
    /\ Steady

BuiltinKinds ==
    {"bool", "*bool", "int", "*int", "string", "*string", "[]string"}

CaseTextMarshaler ==
    /\ Encoded
    /\ Cur.val.kind \notin BuiltinKinds
    /\ Cur.val.kind \in TextMarshalerKinds
    /\ Scalar(MarshalerArg(IsPosArg(Cur.tag), Cur.tag, Cur.val))

\* field.Kind(): the name of the reflect.Kind of the field.
KindName(v) ==
    CASE v.kind \in PointerKinds -> "ptr"
      [] v.kind = "[]string"     -> "slice"
      [] OTHER                   -> v.kind

\* UnsupportedMsg without the kind.
UnsupportedMsgNoKind(v) == Unsupported

\* fmt.Sprintf("unsupported argument type: %s", field.Kind())
UnsupportedMsg(v) == Unsupported \o ": " \o KindName(v)

\* panic(fmt.Sprintf("unsupported argument type: %s", field.Kind()))
CaseUnsupported ==
    /\ Encoded
    /\ Cur.val.kind \notin BuiltinKinds
    /\ Cur.val.kind \notin TextMarshalerKinds
    /\ pc' = "panic"
    /\ panicMsg' = UnsupportedMsg(Cur.val)
    /\ UNCHANGED <<obj, stack, result, parked, client>>

(***************************************************************************)
(* After the loop: the positional map is flattened and the call returns.   *)
(***************************************************************************)
\* orderedPosArgs := make([]string, len(posArgs))
MakeSlice(m) == [k \in 1..Cardinality(DOMAIN m) |-> <<>>]

MakeOrdered ==
    /\ pc = "run"
    /\ Top.phase = "loop"
    /\ Top.i > Len(Top.fs)
    /\ SetTop([Top EXCEPT !.phase = "range", !.ordered = MakeSlice(Top.posArgs),
                          !.todo = DOMAIN Top.posArgs])
    /\ Steady

InRange == pc = "run" /\ Top.phase = "range"

\* The index expression orderedPosArgs[pos] is in range.
IndexOk(ordered, pos) == 0 <= pos /\ pos < Len(ordered)

\* StoreOrdered with the value put after the ones stored so far.
StoreInArrivalOrder(f, pos) ==
    [f EXCEPT !.ordered[Cardinality(DOMAIN f.posArgs) - Cardinality(f.todo) + 1] =
                 f.posArgs[pos],
              !.todo = f.todo \ {pos}]

\* orderedPosArgs[pos] = arg
StoreOrdered(f, pos) ==
    [f EXCEPT !.ordered[pos + 1] = f.posArgs[pos], !.todo = f.todo \ {pos}]

\* orderedPosArgs[pos] = arg, for a key the range over the map yields; the
\* order in which the keys come is not specified.
RangeStore ==
    /\ InRange
    /\ \E pos \in Top.todo :
          /\ IndexOk(Top.ordered, pos)
          /\ SetTop(StoreOrdered(Top, pos))
    /\ Steady

RangePanic ==
    /\ InRange
    /\ \E pos \in Top.todo : ~IndexOk(Top.ordered, pos)
    /\ pc' = "panic"
    /\ panicMsg' = IndexOutOfRange
    /\ UNCHANGED <<obj, stack, result, parked, client>>

\* return append(args, orderedPosArgs...)
ReturnValue(f) == f.args \o f.ordered

\* AppendEmbedded with the result of the call put first.
PrependEmbedded(args, ret) == ret \o args

\* args = append(args, MarshalArgs(field.Value())...)
AppendEmbedded(args, ret) == args \o ret

\* The call for an embedded struct returns to the loop of its caller.
ReturnEmbedded ==
    /\ InRange
    /\ Top.todo = {}
    /\ Len(stack) > 1
    /\ LET caller == stack[Len(stack) - 1]
       IN stack' = [SubSeq(stack, 1, Len(stack) - 1) EXCEPT ![Len(stack) - 1] =
                      [caller EXCEPT !.args = AppendEmbedded(caller.args,
                                                             ReturnValue(Top)),
                                     !.i = caller.i + 1]]
    /\ Steady

\* The outermost call returns.
ReturnTop ==
    /\ InRange
    /\ Top.todo = {}
    /\ Len(stack) = 1
    /\ result' = ReturnValue(Top)
    /\ pc' = "done"
    /\ UNCHANGED <<obj, stack, panicMsg, parked, client>>

Next ==
    \/ CallEmbedded
    \/ SkipUntagged
    \/ SkipZero
    \/ CaseBool
    \/ CasePtrBool
    \/ CaseInt
    \/ CasePtrInt
    \/ CaseString
    \/ CasePtrString
    \/ CaseSlice
    \/ CaseTextMarshaler
    \/ CaseUnsupported
    \/ MakeOrdered
    \/ RangeStore
    \/ RangePanic
    \/ ReturnEmbedded
    \/ ReturnTop

Spec == Init /\ [][Next]_vars

TypeOK ==
    /\ pc \in {"wait", "run", "done", "panic"}
    /\ Len(stack) >= 1
    /\ Len(stack) <= MaxDepth + 2

(***************************************************************************)
(* Two goroutines call MarshalArgs, each with its own struct.  One of them *)
(* takes the steps; obj, stack, result, pc and panicMsg are its registers, *)
(* and parked holds the registers of the other.  Switch hands the          *)
(* processor over, at any point between two steps.                         *)
(***************************************************************************)
\* Structs that between them take every path through MarshalArgs.
SmallObjects ==
    {<<Leaf(TagA, TRUE, VBool(TRUE)), Leaf(TagB, TRUE, VPtrBool(TRUE)),
       Leaf(Pos0, TRUE, VInt(12))>>,
     <<Leaf(Pos1, TRUE, VPtrInt(12)), Leaf(TagA, TRUE, VPtrString(TX)),
       Leaf(Pos0, TRUE, VString(TP))>>,
     <<Leaf(Pos0, TRUE, VSlice(<<TX, TY>>)), Leaf(TagA, TRUE, Yes),
       Leaf(NoTag, TRUE, VString(TX)), Leaf(TagB, TRUE, VString(<<>>))>>,
     <<Embedded(<<Leaf(TagB, TRUE, VString(TY)), Leaf(Pos0, TRUE, VString(TR))>>),
       Leaf(TagA, TRUE, VString(TX)), Leaf(Pos1, TRUE, VString(TQ)),
       Leaf(Pos0, TRUE, VString(TP))>>,
     <<Leaf(Pos1, TRUE, VString(TQ))>>,
     <<Leaf(TagA, TRUE, VString(TX)), Leaf(TagB, TRUE, VFloat(1))>>}

\* The goroutine taking the steps.
Running == 3 - parked.id

\* The registers of the goroutine taking the steps, as they are parked.
Saved ==
    [id |-> Running, obj |-> obj, stack |-> stack, result |-> result,
     pc |-> pc, panicMsg |-> panicMsg]

\* OwnLocals with one posArgs map for both goroutines.
SharedPosArgs(p, cur) ==
    [p.stack EXCEPT ![Len(p.stack)].posArgs = cur[Len(cur)].posArgs]

\* args and posArgs are locals of the call: a goroutine resumes with the
\* ones it was parked with, whatever the other did to its own (cur).
OwnLocals(p, cur) == p.stack

\* An unrecovered panic ends the program, so nothing runs after one.
Switch ==
    /\ parked.id # 0
    /\ pc # "panic"
    /\ obj' = parked.obj
    /\ stack' = OwnLocals(parked, stack)
    /\ result' = parked.result
    /\ pc' = parked.pc
    /\ panicMsg' = parked.panicMsg
    /\ parked' = Saved
    /\ UNCHANGED client

InitPar ==
    /\ obj \in SmallObjects
    /\ stack = <<NewFrame(obj)>>
    /\ result = <<>>
    /\ pc = "run"
    /\ panicMsg = NoPanic
    /\ \E o \in SmallObjects : parked = Invocation(2, o)
    /\ client = NoClient

NextPar ==
    \/ Next
    \/ Switch

SpecPar == InitPar /\ [][NextPar]_vars

(***************************************************************************)
(* The Client operations.  Each builds the argument vector from a fixed    *)
(* prefix and MarshalArgs(opts), hands it to run, and returns what run     *)
(* gives; a List operation decodes the report run returned.                *)
(***************************************************************************)
Pvs ==
    <<"p", "v", "s">>
Vgs ==
    <<"v", "g", "s">>
Pvcreate ==
    <<"p", "v", "c", "r", "e", "a", "t", "e">>
FlagYes ==
    <<"-", "-", "y", "e", "s">>
FlagReportFormat ==
    <<"-", "-", "r", "e", "p", "o", "r", "t", "f", "o", "r", "m", "a",
    "t", "=", "j", "s", "o", "n">>
FlagOptionsPV ==
    <<"-", "-", "o", "p", "t", "i", "o", "n", "s", "=", "p", "v", "_",
    "a", "l", "l", ",", "v", "g", "_", "n", "a", "m", "e">>
FlagOptionsVG ==
    <<"-", "-", "o", "p", "t", "i", "o", "n", "s", "=", "v", "g", "_",
    "a", "l", "l">>

Ops == {"PVList", "VGList", "PVCreate"}

\* The operations that take a pointer to their options and decode a report.
IsList(op) == op \in {"PVList", "VGList"}

\* args := []string{...}
Prefix(op) ==
    CASE op = "PVList"   -> <<Pvs, FlagReportFormat, FlagOptionsPV>>
      [] op = "VGList"   -> <<Vgs, FlagReportFormat, FlagOptionsVG>>
      [] op = "PVCreate" -> <<Pvcreate, FlagYes>>

Nil == "<nil>"

\* What cmd.Run() can return when it fails: the tool exited with a non-zero
\* status, the context was cancelled, the executable could not be started.
ExitStatus == "exit status 5"
Cancelled == "context canceled"
LaunchFailed == "fork/exec /sbin/lvm: no such file or directory"

\* What the tool can have written to its standard output by the time
\* cmd.Run() returns: nothing, a report with a volume, a report without,
\* the beginning of a report.
ReportOne == "{\"report\":[{\"pv\":[{\"pv_name\":\"/dev/sda\"}]}]}"
ReportNone == "{\"report\":[]}"
ReportCut == "{\"report\":[{\"pv\":[{\"pv_na"
Stdouts == {"", ReportOne, ReportNone, ReportCut}

NotFound == "Failed to find physical volume /dev/sda."
Stderrs == {"", NotFound}

\* The outcomes of cmd.Run() with the contents of the two buffers.
RunOutcomes ==
    {[err |-> e, out |-> o, errOut |-> x] :
        e \in {Nil, ExitStatus, Cancelled}, o \in Stdouts, x \in Stderrs}
    \cup {[err |-> LaunchFailed, out |-> "", errOut |-> ""]}

\* fmt.Errorf("%w: %s", err, errOut.String())
WrapStderr(err, errOut) == err \o ": " \o errOut

\* RunReturn handing out.Bytes() over also when cmd.Run() failed.
RunReturnKeepsOutput(r) ==
    IF r.err # Nil THEN [bytes |-> r.out, err |-> WrapStderr(r.err, r.errOut)]
    ELSE [bytes |-> r.out, err |-> Nil]

\* What run returns for an outcome of cmd.Run().
RunReturn(r) ==
    IF r.err # Nil THEN [bytes |-> Nil, err |-> WrapStderr(r.err, r.errOut)]
    ELSE [bytes |-> r.out, err |-> Nil]

\* json.Unmarshal(reportJSON, &report), and the first list of the report
\* after it; a report of physical volumes has no "vg" list.
Unmarshal(op, b) ==
    CASE b = ReportOne  -> [err |-> Nil,
                            list |-> IF op = "PVList" THEN <<"/dev/sda">> ELSE <<>>]
      [] b = ReportNone -> [err |-> Nil, list |-> <<>>]
      [] OTHER          -> [err |-> "unexpected end of JSON input", list |-> <<>>]

\* fmt.Errorf("failed to parse lvm output: %w", err)
ParseError(err) == "failed to parse lvm output: " \o err

\* An operation that has been called and has run no statement yet.
NewClient(op, nilOpts) ==
    [phase |-> "start", op |-> op, nilOpts |-> nilOpts, args |-> <<>>,
     ran |-> [err |-> Nil, out |-> "", errOut |-> ""],
     bytes |-> Nil, err |-> Nil, decoded |-> FALSE, decIn |-> Nil,
     ret |-> <<>>, retErr |-> Nil]

\* args := []string{...}; if opts != nil, MarshalArgs(opts) is called.  The
\* operations that are not List operations take opts by value.
BuildArgs ==
    /\ client.phase = "start"
    /\ pc = "wait"
    /\ IF client.nilOpts
       THEN /\ client' = [client EXCEPT !.phase = "built",
                                        !.args = Prefix(client.op)]
            /\ pc' = pc
       ELSE /\ client' = [client EXCEPT !.phase = "marshal",
                                        !.args = Prefix(client.op)]
            /\ pc' = "run"
    /\ UNCHANGED <<obj, stack, result, panicMsg, parked>>

\* args = append(args, MarshalArgs(opts)...)
AppendMarshalled ==
    /\ client.phase = "marshal"
    /\ pc = "done"
    /\ client' = [client EXCEPT !.phase = "built", !.args = client.args \o result]
    /\ UNCHANGED <<obj, stack, result, pc, panicMsg, parked>>

\* c.run(ctx, args...)
CmdRun ==
    /\ client.phase = "built"
    /\ \E r \in RunOutcomes :
          client' = [client EXCEPT !.phase = "ran", !.ran = r,
                                   !.bytes = RunReturn(r).bytes,
                                   !.err = RunReturn(r).err]
    /\ UNCHANGED <<obj, stack, result, pc, panicMsg, parked>>

\* if err != nil { return nil, err }
ListReturnError ==
    /\ client.phase = "ran"
    /\ IsList(client.op)
    /\ client.err # Nil
    /\ client' = [client EXCEPT !.phase = "returned", !.ret = <<>>,
                                !.retErr = client.err]
    /\ UNCHANGED <<obj, stack, result, pc, panicMsg, parked>>

\* The report is decoded and its first list, if it has one, returned.
ListDecode ==
    /\ client.phase = "ran"
    /\ IsList(client.op)
    /\ client.err = Nil
    /\ LET r == Unmarshal(client.op, client.bytes)
       IN client' = [client EXCEPT !.phase = "returned", !.decoded = TRUE,
                        !.decIn = client.bytes,
                        !.ret = IF r.err # Nil THEN <<>> ELSE r.list,
                        !.retErr = IF r.err # Nil THEN ParseError(r.err) ELSE Nil]
    /\ UNCHANGED <<obj, stack, result, pc, panicMsg, parked>>

\* _, err := c.run(ctx, args...); return err
PlainReturn ==
    /\ client.phase = "ran"
    /\ ~IsList(client.op)
    /\ client' = [client EXCEPT !.phase = "returned", !.retErr = client.err]
    /\ UNCHANGED <<obj, stack, result, pc, panicMsg, parked>>

\* A nil opts is modelled by the struct of no fields, which is never read.
InitClient ==
    /\ \E op \in Ops : \E n \in BOOLEAN :
          /\ n => IsList(op)
          /\ client = NewClient(op, n)
          /\ IF n THEN obj = <<>> ELSE obj \in SmallObjects
    /\ stack = <<NewFrame(obj)>>
    /\ result = <<>>
    /\ pc = "wait"
    /\ panicMsg = NoPanic
    /\ parked = NoInvocation

NextClient ==
    \/ Next
    \/ BuildArgs
    \/ AppendMarshalled
    \/ CmdRun
    \/ ListReturnError
    \/ ListDecode
    \/ PlainReturn

SpecClient == InitClient /\ [][NextClient]_vars

(***************************************************************************)
(* What the properties below speak of.                                     *)
(***************************************************************************)
\* The loop is at a field that is not embedded.
AtField == InLoop /\ ~Cur.embedded

Tagged(f) == f.tag # <<>>

Named(f) == Tagged(f) /\ ~AtoiOk(f.tag)

Positional(f) == Tagged(f) /\ AtoiOk(f.tag)

SupportedKinds == BuiltinKinds \cup TextMarshalerKinds

\* The zero value of a shape: false, 0, empty text, nil pointer, nil sequence.
ZeroOfShape(v) ==
    \/ v.kind = "bool" /\ ~v.b
    \/ v.kind = "int" /\ v.n = 0
    \/ v.kind = "string" /\ v.s = <<>>
    \/ v.kind \in PointerKinds /\ v.isnil
    \/ v.kind = "[]string" /\ v.isnil

\* The step leaves args and posArgs of the running call as they are.
NothingWritten ==
    /\ pc' = "run"
    /\ Top'.args = Top.args
    /\ Top'.posArgs = Top.posArgs

\* The field the loop of the running call has just passed.
Passed == Top.fs[Top.i - 1]

HasPassed == pc = "run" /\ Top.phase = "loop" /\ Top.i > 1 /\ ~Passed.embedded

TextTrue  == <<"t", "r", "u", "e">>
TextFalse == <<"f", "a", "l", "s", "e">>

LastOf(s) == s[Len(s)]

(***************************************************************************)
(* C2  Zero-value omission: a tagged field, named or positional, of a      *)
(* supported shape whose value is the zero value of the shape (false, 0,   *)
(* empty text, nil pointer, nil sequence) appends no named token and       *)
(* writes no positional slot.                                              *)
(***************************************************************************)
C2_ZeroValueOmission ==
    [][(AtField /\ Tagged(Cur) /\ Cur.val.kind \in SupportedKinds
          /\ ZeroOfShape(Cur.val)) => NothingWritten]_vars

\* A positional boolean that is false has been passed and nothing was
\* written for it.
C2_Witness ==
    /\ HasPassed
    /\ Len(stack) = 1
    /\ Top.i = 2
    /\ Passed = Leaf(Pos0, TRUE, VBool(FALSE))
    /\ Top.args = <<>>
    /\ Top.posArgs = EmptyMap

(***************************************************************************)
(* C4  Named boolean presence flag: a named, exported boolean or           *)
(* pointer-to-boolean field that is true appends exactly one token, the    *)
(* tag text itself; one that is false (or nil) appends nothing; no         *)
(* tag=true or tag=false is ever appended for it, and no slot is written.  *)
(***************************************************************************)
C4_NamedBoolFlag ==
    [][(AtField /\ Named(Cur) /\ Cur.exported
          /\ Cur.val.kind \in {"bool", "*bool"})
        => /\ pc' = "run"
           /\ Top'.posArgs = Top.posArgs
           /\ Top'.args = IF ~Cur.val.isnil /\ Cur.val.b
                          THEN Top.args \o <<Cur.tag>>
                          ELSE Top.args]_vars

\* A named boolean that is true has been passed: its tag is the last token.
C4_Witness ==
    /\ HasPassed
    /\ Passed = Leaf(TagA, TRUE, VBool(TRUE))
    /\ Top.args # <<>>
    /\ LastOf(Top.args) = TagA

(***************************************************************************)
(* C5  Positional boolean: a positional, exported boolean field writes     *)
(* "true" to its slot when it is true and "false" when it is false; it is  *)
(* never left out.                                                         *)
(***************************************************************************)
C5_PositionalBool ==
    [][(AtField /\ Positional(Cur) /\ Cur.exported /\ Cur.val.kind = "bool")
        => /\ pc' = "run"
           /\ AtoiVal(Cur.tag) \in DOMAIN Top'.posArgs
           /\ Top'.posArgs[AtoiVal(Cur.tag)] =
                 IF Cur.val.b THEN TextTrue ELSE TextFalse]_vars

(***************************************************************************)
(* C6  Named sequence expansion: a named, exported sequence-of-text field  *)
(* with n elements appends exactly n tokens after the tokens there are,    *)
(* the i-th being tag=<element i> (tag= for an empty element), and writes  *)
(* no slot.                                                                *)
(***************************************************************************)
C6_NamedSequence ==
    [][(AtField /\ Named(Cur) /\ Cur.exported /\ Cur.val.kind = "[]string")
        => /\ pc' = "run"
           /\ Top'.posArgs = Top.posArgs
           /\ Len(Top'.args) = Len(Top.args) + Len(Cur.val.l)
           /\ SubSeq(Top'.args, 1, Len(Top.args)) = Top.args
           /\ \A k \in 1..Len(Cur.val.l) :
                 Top'.args[Len(Top.args) + k] =
                    Cur.tag \o <<"=">> \o Cur.val.l[k]]_vars

\* A named sequence of an empty and a non-empty element has been passed.
C6_Witness ==
    /\ HasPassed
    /\ Top.i = 3
    /\ Passed = Leaf(TagA, TRUE, VSlice(<<<<>>, TX>>))
    /\ Len(Top.args) = 3
    /\ Top.args[2] = <<"-", "-", "a", "=">>
    /\ Top.args[3] = <<"-", "-", "a", "=", "x">>

(***************************************************************************)
(* C7  Positional sequence expansion: a positional, exported sequence      *)
(* field with base index b and n elements writes element i to slot b+i     *)
(* for 0 <= i < n, these n consecutive slots and no other, and appends no  *)
(* named token; when the call returns, every slot p of the map is the      *)
(* p-th positional token, so the elements come out in element order.       *)
(***************************************************************************)
C7_SlotsOf(f) == AtoiVal(f.tag)..(AtoiVal(f.tag) + Len(f.val.l) - 1)

C7_Writes ==
    (AtField /\ Positional(Cur) /\ Cur.exported /\ Cur.val.kind = "[]string")
    => /\ pc' = "run"
       /\ Top'.args = Top.args
       /\ DOMAIN Top'.posArgs = (DOMAIN Top.posArgs) \cup C7_SlotsOf(Cur)
       /\ \A k \in 1..Len(Cur.val.l) :
             Top'.posArgs[AtoiVal(Cur.tag) + k - 1] = Cur.val.l[k]
       /\ \A p \in (DOMAIN Top.posArgs) \ C7_SlotsOf(Cur) :
             Top'.posArgs[p] = Top.posArgs[p]

C7_Returns ==
    (InRange /\ Top.todo = {} /\ pc' \in {"run", "done"})
    => \A p \in DOMAIN Top.posArgs :
          /\ p + 1 \in 1..Len(Top.ordered)
          /\ Top.ordered[p + 1] = Top.posArgs[p]

C7_PositionalSequence == [][C7_Writes /\ C7_Returns]_vars

\* A positional sequence of two elements at base 1, after a field at slot 0,
\* has come out in element order.
C7_Witness ==
    /\ pc = "done"
    /\ obj = <<Leaf(Pos0, TRUE, VString(TP)),
               Leaf(Pos1, TRUE, VSlice(<<TX, TY>>))>>
    /\ result = <<TP, TX, TY>>

(***************************************************************************)
(* The tokens a struct stands for, read off the table of shapes: named     *)
(* tokens in declaration order with embedded structs expanded in place,    *)
(* and the positional slots of the whole struct.                           *)
(***************************************************************************)
\* In this model every named tag starts with "--" and no value does.
IsNamedToken(t) == Len(t) >= 2 /\ t[1] = "-" /\ t[2] = "-"

\* The text a scalar or custom-encoded value stands for.
TextOf(v) ==
    CASE v.kind \in {"bool", "*bool"}     -> (IF v.b THEN TextTrue ELSE TextFalse)
      [] v.kind \in {"int", "*int"}       -> Itoa(v.n)
      [] v.kind \in {"string", "*string"} -> v.s
      [] v.kind = "*YesNo"                -> (IF v.b THEN <<"y">> ELSE <<"n">>)
      [] OTHER                            -> v.s

Included(f) ==
    Tagged(f) /\ f.exported /\ ~ZeroOfShape(f.val)

NamedTokensOf(f) ==
    IF ~(Named(f) /\ Included(f) /\ f.val.kind \in SupportedKinds) THEN <<>>
    ELSE IF f.val.kind \in {"bool", "*bool"}
         THEN (IF f.val.b THEN <<f.tag>> ELSE <<>>)
    ELSE IF f.val.kind = "[]string"
         THEN [k \in 1..Len(f.val.l) |-> f.tag \o <<"=">> \o f.val.l[k]]
    ELSE <<f.tag \o <<"=">> \o TextOf(f.val)>>

RECURSIVE NamedFlat(_)
NamedFlat(fs) ==
    IF fs = <<>> THEN <<>>
    ELSE (IF Head(fs).embedded THEN NamedFlat(Head(fs).sub)
          ELSE NamedTokensOf(Head(fs)))
         \o NamedFlat(Tail(fs))

\* The slots a positional field fills, as a sequence of <<slot, text>>; a
\* scalar whose text is empty fills none.
SlotsOf(f) ==
    IF ~(Positional(f) /\ Included(f) /\ f.val.kind \in SupportedKinds) THEN <<>>
    ELSE IF f.val.kind = "[]string"
         THEN [k \in 1..Len(f.val.l) |-> <<AtoiVal(f.tag) + k - 1, f.val.l[k]>>]
    ELSE IF TextOf(f.val) = <<>> THEN <<>>
    ELSE <<<<AtoiVal(f.tag), TextOf(f.val)>>>>

RECURSIVE SlotsFlat(_)
SlotsFlat(fs) ==
    IF fs = <<>> THEN <<>>
    ELSE (IF Head(fs).embedded THEN SlotsFlat(Head(fs).sub)
          ELSE SlotsOf(Head(fs)))
         \o SlotsFlat(Tail(fs))

\* The text of slot p: the one written last.
SlotText(w, p) ==
    w[CHOOSE k \in 1..Len(w) :
         /\ w[k][1] = p
         /\ \A j \in (k + 1)..Len(w) : w[j][1] # p][2]

SetMin(K) == CHOOSE k \in K : \A j \in K : k <= j

SetMax(K) == CHOOSE k \in K : \A j \in K : j <= k

RECURSIVE Ascending(_, _)
Ascending(w, K) ==
    IF K = {} THEN <<>>
    ELSE <<SlotText(w, SetMin(K))>> \o Ascending(w, K \ {SetMin(K)})

PositionalFlat(fs) ==
    Ascending(SlotsFlat(fs), {SlotsFlat(fs)[k][1] : k \in 1..Len(SlotsFlat(fs))})

(***************************************************************************)
(* C1  Ordering: whatever the interleaving of the declarations, the slice  *)
(* MarshalArgs returns is the named tokens in declaration order followed   *)
(* by the positional tokens in ascending slot order.                       *)
(***************************************************************************)
C1_Ordering ==
    pc = "done" => result = NamedFlat(obj) \o PositionalFlat(obj)

(***************************************************************************)
(* C3  Inclusion, as claimed: a field of a supported shape appends a       *)
(* token or writes a slot if and only if it is tagged, exported and not    *)
(* the zero value of its shape.                                            *)
(***************************************************************************)
C3_Contributes ==
    /\ pc' = "run"
    /\ \/ Len(Top'.args) > Len(Top.args)
       \/ Top'.posArgs # Top.posArgs

C3_InclusionIff ==
    [][(AtField /\ Cur.val.kind \in SupportedKinds)
        => (Included(Cur) <=> C3_Contributes)]_vars

\* The non-zero values that stand for no text: a named boolean pointer to
\* false, a sequence without elements, a positional value with empty text.
C3_NothingToRender(f) ==
    \/ Named(f) /\ f.val.kind = "*bool" /\ ~f.val.b
    \/ f.val.kind = "[]string" /\ f.val.l = <<>>
    \/ Positional(f) /\ f.val.kind \in {"*string", "*custom"} /\ f.val.s = <<>>

(***************************************************************************)
(* C3  Inclusion, amended: a field that is untagged, unexported or zero    *)
(* appends no token and writes no slot; a tagged, exported, non-zero field *)
(* of a supported shape appends at least one named token, or writes its    *)
(* base slot, unless it has nothing to render (a named pointer to false,   *)
(* a non-nil empty sequence, a positional pointer to empty text or custom  *)
(* value rendering as empty text), and then it does neither.               *)
(***************************************************************************)
C3_InclusionAmended ==
    [][(AtField /\ Cur.val.kind \in SupportedKinds)
        => /\ ~Included(Cur) => NothingWritten
           /\ (Included(Cur) /\ C3_NothingToRender(Cur)) => NothingWritten
           /\ (Included(Cur) /\ ~C3_NothingToRender(Cur))
                 => /\ pc' = "run"
                    /\ Named(Cur) => Len(Top'.args) > Len(Top.args)
                    /\ Positional(Cur) =>
                          AtoiVal(Cur.tag) \in DOMAIN Top'.posArgs]_vars

\* A named pointer to 0 has been passed and its token appended, and before
\* it an unexported field that left nothing.
C3_Witness ==
    /\ HasPassed
    /\ Top.i = 2
    /\ Passed = Leaf(TagA, TRUE, VPtrInt(0))
    /\ Top.args = <<<<"-", "-", "a", "=", "0">>>>

(***************************************************************************)
(* C8  Embedded composition: in the slice MarshalArgs returns, the named   *)
(* tokens are those of the fields in declaration order with every          *)
(* embedded struct expanded where it is declared, at any depth.            *)
(***************************************************************************)
C8_EmbeddedComposition ==
    pc = "done" => SelectSeq(result, IsNamedToken) = NamedFlat(obj)

\* A struct embedded between two named fields, itself embedding a struct.
C8_Witness ==
    /\ pc = "done"
    /\ obj = <<Leaf(TagA, TRUE, VString(TX)),
               Embedded(<<Leaf(TagB, TRUE, VString(TY)),
                          Embedded(<<Leaf(TagB, TRUE, VString(TY))>>)>>),
               Leaf(TagA, TRUE, VString(TX))>>
    /\ result = <<SprintfEq(TagA, TX), SprintfEq(TagB, TY),
                  SprintfEq(TagB, TY), SprintfEq(TagA, TX)>>

(***************************************************************************)
(* C9  Named before positional: in the slice MarshalArgs returns no named  *)
(* token comes after a positional token, embedded structs with positional  *)
(* fields included.                                                        *)
(***************************************************************************)
C9_NamedBeforePositional ==
    pc = "done" =>
       \A i, j \in 1..Len(result) :
          (i < j /\ IsNamedToken(result[j])) => IsNamedToken(result[i])

(***************************************************************************)
(* C10  Gap filling: when the slots written leave a gap, the call does not *)
(* abort and its positional sequence has highest index + 1 elements.       *)
(***************************************************************************)
C10_HasGap(K) == K # {} /\ K \subseteq Nat /\ K # 0..SetMax(K)

C10_GapFilled ==
    \A k \in 1..Len(stack) :
       (stack[k].phase = "range" /\ C10_HasGap(DOMAIN stack[k].posArgs))
       => /\ pc # "panic"
          /\ Len(stack[k].ordered) = SetMax(DOMAIN stack[k].posArgs) + 1

(***************************************************************************)
(* C11  One failure kind: a struct all of whose tagged, exported, non-zero *)
(* fields have a supported shape is marshalled without abort.              *)
(***************************************************************************)
RECURSIVE AllSupported(_)
AllSupported(fs) ==
    \A k \in 1..Len(fs) :
       IF fs[k].embedded THEN AllSupported(fs[k].sub)
       ELSE (Tagged(fs[k]) /\ fs[k].exported /\ ~ZeroOfShape(fs[k].val)
               /\ ~(fs[k].val.kind = "float64" /\ fs[k].val.n = 0))
            => fs[k].val.kind \in SupportedKinds

C11_NeverAborts == AllSupported(obj) => pc # "panic"

(***************************************************************************)
(* C12  Unsupported shape is fatal: at a tagged, exported, non-zero field  *)
(* whose shape is neither built in nor a TextMarshaler the call panics     *)
(* with a message naming the kind of the field, nothing happens after the  *)
(* panic and no slice is returned; such a field that is untagged,          *)
(* unexported or zero is passed without abort and without a token.         *)
(***************************************************************************)
C12_Reached(f) == Tagged(f) /\ f.exported /\ f.val.n # 0

C12_Step ==
    (AtField /\ Cur.val.kind = "float64")
    => IF C12_Reached(Cur)
       THEN /\ pc' = "panic"
            /\ panicMsg' = "unsupported argument type: float64"
            /\ result' = <<>>
       ELSE NothingWritten

C12_UnsupportedIsFatal ==
    /\ [][C12_Step /\ pc # "panic"]_vars
    /\ [](pc = "panic" => result = <<>>)

\* The panic, after a token of an earlier field had been appended.
C12_Witness ==
    /\ pc = "panic"
    /\ panicMsg = "unsupported argument type: float64"
    /\ Cur = Leaf(TagA, TRUE, VFloat(1))
    /\ Top.args = <<SprintfEq(TagA, TX)>>
    /\ result = <<>>

(***************************************************************************)
(* C13  Tag classification: a text field is positional exactly when its    *)
(* tag is a non-negative integer in decimal, which is then its slot; with  *)
(* any other tag, "-1" included, it is named and the tag is emitted as is. *)
(***************************************************************************)
C13_NonNegativeInteger(tag) ==
    tag # <<>> /\ \A k \in 1..Len(tag) : IsDigit(tag[k])

C13_TagClassification ==
    [][(AtField /\ Tagged(Cur) /\ Cur.exported /\ Cur.val.kind = "string"
          /\ Cur.val.s # <<>>)
        => /\ pc' = "run"
           /\ IF C13_NonNegativeInteger(Cur.tag)
              THEN /\ Top'.args = Top.args
                   /\ DecVal(Cur.tag) \in DOMAIN Top'.posArgs
                   /\ Top'.posArgs[DecVal(Cur.tag)] = Cur.val.s
              ELSE /\ Top'.posArgs = Top.posArgs
                   /\ Top'.args = Top.args \o <<Cur.tag \o <<"=">> \o Cur.val.s>>]_vars

(***************************************************************************)
(* C14  Yes/no rendering: a named, exported *YesNo field appends the one   *)
(* token tag=y when it holds Yes and tag=n when it holds No, never the     *)
(* bare tag, and nothing when the pointer is nil; no slot is written.      *)
(***************************************************************************)
C14_YesNoRendering ==
    [][(AtField /\ Named(Cur) /\ Cur.exported /\ Cur.val.kind = "*YesNo")
        => /\ pc' = "run"
           /\ Top'.posArgs = Top.posArgs
           /\ Top'.args =
                 IF Cur.val.isnil THEN Top.args
                 ELSE Top.args \o <<Cur.tag \o <<"=">> \o
                                      (IF Cur.val.b THEN <<"y">> ELSE <<"n">>)>>]_vars

\* A named field holding No has been passed: tag=n is the last token.
C14_Witness ==
    /\ HasPassed
    /\ Passed = Leaf(TagA, TRUE, No)
    /\ Top.args # <<>>
    /\ LastOf(Top.args) = <<"-", "-", "a", "=", "n">>

(***************************************************************************)
(* C15  Pointer/value equivalence: at a tagged, exported boolean, integer  *)
(* or text field holding a non-zero v, the call is left as the case of     *)
(* the pointer type leaves it for a pointer to v, and at a pointer to a    *)
(* non-zero v as the case of the value type leaves it for v: same tokens,  *)
(* same slot writes.                                                       *)
(***************************************************************************)
C15_NonZero(v) ==
    /\ ~v.isnil
    /\ \/ v.kind \in {"bool", "*bool"} /\ v.b
       \/ v.kind \in {"int", "*int"} /\ v.n # 0
       \/ v.kind \in {"string", "*string"} /\ v.s # <<>>

\* The argument text the other form of the value gives.
C15_OtherArg(isPos, tag, v) ==
    CASE v.kind = "bool"    -> PtrBoolArg(isPos, tag, VPtrBool(v.b))
      [] v.kind = "*bool"   -> BoolArg(isPos, tag, v.b)
      [] v.kind = "int"     -> PtrIntArg(isPos, tag, VPtrInt(v.n))
      [] v.kind = "*int"    -> IntArg(isPos, tag, v.n)
      [] v.kind = "string"  -> PtrStringArg(isPos, tag, VPtrString(v.s))
      [] v.kind = "*string" -> StringArg(isPos, tag, v.s)

C15_ScalarKinds == {"bool", "*bool", "int", "*int", "string", "*string"}

C15_PointerValueEquivalence ==
    [][(AtField /\ Tagged(Cur) /\ Cur.exported
          /\ Cur.val.kind \in C15_ScalarKinds /\ C15_NonZero(Cur.val))
        => /\ pc' = "run"
           /\ LET other == PutArg(Top, AtoiOk(Cur.tag), AtoiVal(Cur.tag),
                                  C15_OtherArg(AtoiOk(Cur.tag), Cur.tag, Cur.val))
              IN /\ Top'.args = other.args
                 /\ Top'.posArgs = other.posArgs]_vars

\* A named pointer to 12 has been passed and left the token of the value 12.
C15_Witness ==
    /\ HasPassed
    /\ Passed = Leaf(TagA, TRUE, VPtrInt(12))
    /\ Top.args # <<>>
    /\ LastOf(Top.args) = <<"-", "-", "a", "=", "1", "2">>

(***************************************************************************)
(* The slice a struct stands for, as a function of the struct alone: the   *)
(* named tokens and the slices of the embedded structs in declaration      *)
(* order, then the slots of the struct's own fields in ascending order.    *)
(***************************************************************************)
RECURSIVE LocalSlots(_)
LocalSlots(fs) ==
    IF fs = <<>> THEN <<>>
    ELSE (IF Head(fs).embedded THEN <<>> ELSE SlotsOf(Head(fs)))
         \o LocalSlots(Tail(fs))

SlotKeys(w) == {w[k][1] : k \in 1..Len(w)}

RECURSIVE ResultOf(_)
RECURSIVE TokensOf(_)
TokensOf(fs) ==
    IF fs = <<>> THEN <<>>
    ELSE (IF Head(fs).embedded THEN ResultOf(Head(fs).sub)
          ELSE NamedTokensOf(Head(fs)))
         \o TokensOf(Tail(fs))

ResultOf(fs) ==
    TokensOf(fs) \o Ascending(LocalSlots(fs), SlotKeys(LocalSlots(fs)))

(***************************************************************************)
(* C16  Determinism: the slice MarshalArgs returns is a function of the    *)
(* struct alone, whatever the order in which the range loop yields the     *)
(* keys of the positional map.                                             *)
(***************************************************************************)
C16_Deterministic == pc = "done" => result = ResultOf(obj)

\* The range loop has stored slot 1 and has slot 0 still to come.
C16_Witness ==
    /\ InRange
    /\ DOMAIN Top.posArgs = {0, 1}
    /\ Top.todo = {0}
    /\ Top.ordered[2] = Top.posArgs[1]

\* The registers of goroutine k, taking the steps or parked.
RegsOf(k) == IF parked.id = k THEN parked ELSE Saved

(***************************************************************************)
(* C17  Concurrent safety: when two goroutines call MarshalArgs on their   *)
(* own structs, under every interleaving of their steps a call that        *)
(* returns returns the slice it returns when run alone; no struct is       *)
(* modified; and the registers of a goroutine, its args and posArgs among  *)
(* them, change only in that goroutine's own steps.                        *)
(***************************************************************************)
C17_AsAlone ==
    \A k \in {1, 2} :
       RegsOf(k).pc = "done" => RegsOf(k).result = ResultOf(RegsOf(k).obj)

C17_Isolated ==
    \A k \in {1, 2} :
       /\ RegsOf(k).obj' = RegsOf(k).obj
       /\ RegsOf(k)' # RegsOf(k) => (Running = k /\ Running' = k)

C17_ConcurrentSafety == [](C17_AsAlone) /\ [][C17_Isolated]_vars

\* The first goroutine has returned its three tokens while the second is
\* halfway through its range loop, with its own two slots.
C17_Witness ==
    /\ Running = 1
    /\ pc = "done"
    /\ result = <<SprintfEq(TagA, TX), TP, Itoa(12)>>
    /\ parked.pc = "run"
    /\ LET f == parked.stack[Len(parked.stack)]
       IN /\ f.phase = "range"
          /\ DOMAIN f.posArgs = {0, 1}
          /\ Cardinality(f.todo) = 1

\* cmd.Run() has returned an error.
RunFailed == client.phase \in {"ran", "returned"} /\ client.ran.err # Nil

(***************************************************************************)
(* C18  Failure boundary of the process wrapper: when cmd.Run() fails      *)
(* (non-zero exit, cancellation, or the tool could not be started), run    *)
(* returns no output bytes and an error whose text is the error of         *)
(* cmd.Run() followed by the captured standard error; a List operation     *)
(* then returns that error with an empty result and the decoder is never   *)
(* given the captured standard output; the decoder runs only after         *)
(* cmd.Run() succeeded, on the output of that run.                         *)
(***************************************************************************)
C18_RunFails ==
    RunFailed
    => /\ client.bytes = Nil
       /\ client.err = client.ran.err \o ": " \o client.ran.errOut
       /\ ~client.decoded

C18_ListFails ==
    (RunFailed /\ IsList(client.op) /\ client.phase = "returned")
    => /\ client.ret = <<>>
       /\ client.retErr = client.err
       /\ client.decIn = Nil

C18_DecoderAfterSuccess ==
    client.decoded => (client.ran.err = Nil /\ client.decIn = client.ran.out)

C18_FailureBoundary ==
    /\ C18_RunFails
    /\ C18_ListFails
    /\ C18_DecoderAfterSuccess

\* PVList has returned after the tool exited with a status other than 0,
\* the beginning of a report on its standard output.
C18_Witness ==
    /\ client.phase = "returned"
    /\ client.op = "PVList"
    /\ client.ran = [err |-> ExitStatus, out |-> ReportCut, errOut |-> NotFound]
    /\ client.retErr = "exit status 5: Failed to find physical volume /dev/sda."
    /\ client.ret = <<>>
    /\ ~client.decoded

\* No token that is not named comes before a named one.
NamedThenPositional(s) ==
    \A i, j \in 1..Len(s) : (i < j /\ IsNamedToken(s[j])) => IsNamedToken(s[i])

\* The vector the tool was started with, and what follows the prefix in it.
Invoked == client.phase \in {"ran", "returned"}

AfterPrefix == SubSeq(client.args, Len(Prefix(client.op)) + 1, Len(client.args))

(***************************************************************************)
(* C19  Argument-vector composition: every operation starts the tool with  *)
(* the vector made of the sub-command name, the fixed leading flags, the   *)
(* marshalled named tokens and the marshalled positional tokens, in that   *)
(* order; a List operation called with nil options starts it with exactly  *)
(* the fixed prefix, MarshalArgs not having been called.                   *)
(***************************************************************************)
C19_VectorComposition ==
    Invoked
    => /\ SubSeq(client.args, 1, Len(Prefix(client.op))) = Prefix(client.op)
       /\ NamedThenPositional(AfterPrefix)
       /\ client.nilOpts => (client.args = Prefix(client.op) /\ pc = "wait")
       /\ ~client.nilOpts => (AfterPrefix = result /\ pc = "done")

(***************************************************************************)
(* C20  Slot collision: when two writes go to the same slot the later one  *)
(* replaces the earlier, so a call that gets through the range loop has    *)
(* as many positional tokens as distinct slots were written, each the      *)
(* text written to its slot last.                                          *)
(***************************************************************************)
C20_SlotCollision ==
    (InRange /\ Top.todo = {})
    => /\ Len(Top.ordered) = Cardinality(SlotKeys(LocalSlots(Top.fs)))
       /\ \A p \in SlotKeys(LocalSlots(Top.fs)) :
             Top.ordered[p + 1] = SlotText(LocalSlots(Top.fs), p)

\* The second element of a sequence at base 0 replaced by the field at 1.
C20_Witness ==
    /\ pc = "done"
    /\ obj = <<Leaf(Pos0, TRUE, VSlice(<<TX, TY>>)),
               Leaf(Pos1, TRUE, VString(TQ))>>
    /\ result = <<TX, TQ>>

(***************************************************************************)
(* C21  Empty rendered text: at a tagged, exported field, a positional     *)
(* non-nil pointer to the empty text and a positional custom value that    *)
(* renders as the empty text write no slot, and a named non-nil pointer to *)
(* false appends nothing; whereas every element of a positional sequence,  *)
(* an empty one too, is written to its slot, and a named non-nil pointer   *)
(* to the empty text appends tag= .                                        *)
(***************************************************************************)
C21_Live == AtField /\ Tagged(Cur) /\ Cur.exported /\ ~Cur.val.isnil

C21_EmptyPositional ==
    (C21_Live /\ Positional(Cur) /\ Cur.val.kind \in {"*string", "*custom"}
       /\ Cur.val.s = <<>>)
    => NothingWritten

C21_NamedPtrFalse ==
    (C21_Live /\ Named(Cur) /\ Cur.val.kind = "*bool" /\ ~Cur.val.b)
    => NothingWritten

C21_SequenceElements ==
    (C21_Live /\ Positional(Cur) /\ Cur.val.kind = "[]string")
    => /\ pc' = "run"
       /\ Top'.args = Top.args
       /\ DOMAIN Top'.posArgs =
             DOMAIN Top.posArgs
                \cup {PosOf(Cur.tag) + k - 1 : k \in 1..Len(Cur.val.l)}
       /\ \A k \in 1..Len(Cur.val.l) :
             Top'.posArgs[PosOf(Cur.tag) + k - 1] = Cur.val.l[k]

C21_NamedPtrEmpty ==
    (C21_Live /\ Named(Cur) /\ Cur.val.kind = "*string" /\ Cur.val.s = <<>>)
    => /\ pc' = "run"
       /\ Top'.posArgs = Top.posArgs
       /\ Top'.args = Top.args \o <<Cur.tag \o <<"=">>>>

C21_EmptyRenderedText ==
    [][/\ C21_EmptyPositional
       /\ C21_NamedPtrFalse
       /\ C21_SequenceElements
       /\ C21_NamedPtrEmpty]_vars

\* A call has returned the one named token of a struct whose second field
\* is a positional pointer to the empty text.
C21_Witness ==
    /\ pc = "done"
    /\ obj = <<Leaf(TagA, TRUE, VString(TX)), Leaf(Pos0, TRUE, VPtrString(<<>>))>>
    /\ result = <<SprintfEq(TagA, TX)>>

====
